---- MODULE Spec2Model ----
(***************************************************************************)
(* State-machine model of scripts/start_integrated_platform.py: the        *)
(* NetworkPlatformLauncher supervisor (start_all, stop_all, the monitor    *)
(* loop of run_interactive_mode, _signal_handler) together with the child  *)
(* OS processes it spawns and the delivery of SIGINT/SIGTERM.              *)
(*                                                                         *)
(* The supervisor's control path is one Python thread.  pc is its position *)
(* in the source.  A signal handler runs on that same thread between two   *)
(* bytecodes; it ends in sys.exit(0), so the interrupted code never        *)
(* resumes: SystemExit unwinds through it.  The only clauses that can see  *)
(* the unwinding are the "except Exception" of start_application (which    *)
(* does not catch SystemExit) and the "finally" of run_interactive_mode.   *)
(* interrupted remembers which of these two try blocks, if any, the first  *)
(* signal interrupted, which is what the unwinding needs.                  *)
(***************************************************************************)
EXTENDS Naturals, Sequences, FiniteSets

\* ---------------------------------------------------------------- bounds
MaxApps == 2
MaxSignals == 2
MaxCalls == 2
MaxClientApps == 1
MaxTracked == 3
MaxHealthApps == 3
MaxLines == 3

\* ------------------------------------------------------ program constants
\* process.wait(timeout=5)
GracePeriod == 5

\* response.status_code == 200
HttpOk == 200

VARIABLES
    applications,   \* self.applications: the registry, a sequence of descriptors
    mode,           \* how main() was invoked: "none", "interactive", "start", "api"
    pc,             \* position of the control thread
    running,        \* self.running
    processes,      \* self.processes: sequence of handles (Popen objects)
    os,             \* per handle ever created: [app, alive, termed, removed]
    i,              \* index of the for loop in progress (1-based)
    process,        \* local "process" in start_all: a handle, or None
    saRet,          \* who called start_all: "interactive", "start", "api"
    ret,            \* who called stop_all: "handler", "finally", "api"
    waited,         \* time units the process.wait(timeout=5) in progress has lasted
    visit,          \* per handle: what the stop_all invocation in progress did
    invKills,       \* per handle: kill() calls of the stop_all invocation in progress
    stopEntry,      \* [running, procs] at entry of the latest stop_all since start_all
    dead_processes, \* local "dead_processes" of the monitor loop (1-based indexes)
    tickExited,     \* handles already exited when the poll pass in progress began
    tickDone,       \* TRUE right after the removals of a monitor tick
    sigCount,       \* number of signals delivered so far
    interrupted,    \* the try block the pending SystemExit will unwind, "none" before
    sigInStart,     \* TRUE if a signal was handled while start_all was in progress
    lateSpawn,      \* TRUE if a child was spawned after a signal had been handled
    attempted,      \* applications start_application was called for, this start_all
    failed,         \* applications whose spawn failed, this start_all
    exitCode,       \* exit status of the supervisor process, once pc = "exited"
    calls,          \* number of public operations invoked by the library client
    prevCall,       \* the call of start_all or stop_all that returned last
    report,         \* check_application_health: the status lines printed so far
    relay           \* _monitor_output of one child: the thread, the pipes, the log

vars == << applications, mode, pc, running, processes, os, i, process, saRet,
           ret, waited, visit, invKills, stopEntry, dead_processes, tickExited,
           tickDone, sigCount, interrupted, sigInStart, lateSpawn, attempted, failed,
            exitCode, calls, prevCall, report, relay >>

\* The variables the launching and stopping code never touches.  The relay
\* threads run beside the control thread and share nothing with it but the
\* handle they poll; they are followed on their own, in SpecRelay.
aux == << report, relay >>

None == 0

\* --------------------------------------------------------------- registry
\* One descriptor of self.applications.  The code's registry has four entries
\* on ports 5000..5003, the fourth being the only static one.
Application(k) ==
    [name |-> k, port |-> 4999 + k,
     type |-> IF k = 4 THEN "static" ELSE "managed"]

Registry(n) == [k \in 1..n |-> Application(k)]

\* --------------------------------------------------------------- helpers
Handles == 1..Len(os)

Tracked == {processes[k] : k \in 1..Len(processes)}

\* process.poll() is None
PollIsNone(h) == os[h].alive

\* pcs of start_all, of start_application's try block, of stop_all, and of the
\* try block of run_interactive_mode
StartAllPcs == {"sa_loop", "sa_popen", "sa_append", "sa_sleep", "sa_running"}
StopAllPcs == {"st_entry", "st_loop", "st_poll", "st_term", "st_wait", "st_kill",
               "st_clear", "st_flag"}
MonitorPcs == {"im_while", "im_sleep", "im_poll", "im_pop"}

NoVisit == [h \in Handles |-> "unvisited"]
NoKills == [h \in Handles |-> 0]

\* no relay thread followed
RelayOff ==
    [process |-> None, app_name |-> None, pc |-> "off", stdout |-> << >>,
     stderr |-> << >>, consumed |-> << >>, printed |-> << >>]


\* ------------------------------------------------------------------ Init
\* The launcher right after __init__: nothing tracked, not running, handlers
\* installed.
InitCommon ==
    /\ running = FALSE
    /\ processes = << >>
    /\ os = << >>
    /\ i = 0
    /\ process = None
    /\ saRet = "none"
    /\ ret = "none"
    /\ waited = 0
    /\ visit = << >>
    /\ invKills = << >>
    /\ stopEntry = [running |-> FALSE, procs |-> << >>]
    /\ dead_processes = << >>
    /\ tickExited = {}
    /\ tickDone = FALSE
    /\ sigCount = 0
    /\ interrupted = "none"
    /\ sigInStart = FALSE
    /\ lateSpawn = FALSE
    /\ attempted = {}
    /\ failed = {}
    /\ exitCode = 0
    /\ calls = 0
    /\ prevCall = "none"
    /\ report = << >>
    /\ relay = RelayOff

\* main() after "launcher = NetworkPlatformLauncher()", for a registry of any
\* size up to MaxApps
Init ==
    /\ InitCommon
    /\ applications \in {Registry(n) : n \in 0..MaxApps}
    /\ mode = "none"
    /\ pc = "main"

\* --------------------------------------------------------------- start_all
\* Entry of start_all (the banner and check_pathways_integration only print).
EnterStartAll(caller) ==
    /\ pc' = "sa_loop"
    /\ saRet' = caller
    /\ i' = 1
    /\ attempted' = {}
    /\ failed' = {}
    /\ stopEntry' = [running |-> FALSE, procs |-> << >>]
    /\ prevCall' = "none"

\* "except Exception as e" of start_application: which exceptions it catches.
\* OSError and the like are Exceptions; SystemExit is a BaseException only.
\* (variants: a bare "except:", and no try block at all)
StartApplicationCatchesAll(exc) == TRUE

StartApplicationCatchesNone(exc) == FALSE

StartApplicationCatches(exc) == exc = "Exception"

\* "for app_config in self.applications" is exhausted
\* (variant: a loop that stops one entry short)
StartLoopDoneEarly == i >= Len(applications)

StartLoopDone == i > Len(applications)

\* "if process:" in start_all
ShouldAppend(p) == p # None

\* the value start_all gives self.running
RunningAfterStart == TRUE

\* for app_config in self.applications: process = self.start_application(...)
StartAllLoop ==
    /\ pc = "sa_loop"
    /\ IF StartLoopDone
         THEN /\ pc' = "sa_running"
              /\ UNCHANGED attempted
         ELSE /\ pc' = "sa_popen"
              /\ attempted' = attempted \cup {applications[i].name}
    /\ UNCHANGED << applications, mode, running, processes, os, i, process, saRet,
                    ret, waited, visit, invKills, stopEntry, dead_processes,
                    tickExited, tickDone, sigCount, interrupted, sigInStart, lateSpawn,
                    failed,  exitCode, calls, prevCall, aux >>

\* subprocess.Popen(...) succeeds: a new child runs, the relay thread is
\* started, and start_application returns the handle.
PopenOk ==
    /\ pc = "sa_popen"
    /\ os' = Append(os, [app |-> applications[i].name, alive |-> TRUE,
                         termed |-> FALSE, removed |-> 0])
    /\ visit' = Append(visit, "unvisited")
    /\ invKills' = Append(invKills, 0)
    /\ process' = Len(os) + 1
    /\ lateSpawn' = (lateSpawn \/ sigCount > 0)
    /\ pc' = "sa_append"
    /\ UNCHANGED << applications, mode, running, processes, i, saRet, ret, waited,
                    stopEntry, dead_processes, tickExited, tickDone, sigCount,
                    interrupted, sigInStart, attempted, failed,  exitCode,
                    calls, prevCall, aux >>

\* subprocess.Popen(...) raises (missing working directory, OS refusal): the
\* except clause logs it and start_application returns None.  Were the
\* exception not caught it would end the supervisor with a traceback (status 1).
PopenFails ==
    /\ pc = "sa_popen"
    /\ failed' = failed \cup {applications[i].name}
    /\ process' = None
    /\ IF StartApplicationCatches("Exception")
         THEN /\ pc' = "sa_append"
              /\ exitCode' = exitCode
         ELSE /\ pc' = "exited"
              /\ exitCode' = 1
    /\ UNCHANGED << applications, mode, running, processes, os, i, saRet, ret,
                    waited, visit, invKills, stopEntry, dead_processes, tickExited,
                    tickDone, sigCount, interrupted, sigInStart, lateSpawn, attempted,
                     calls, prevCall, aux >>

\* if process: self.processes.append(process)   (then time.sleep(2))
StartAllAppend ==
    /\ pc = "sa_append"
    /\ IF ShouldAppend(process)
         THEN /\ processes' = Append(processes, process)
              /\ pc' = "sa_sleep"
              /\ i' = i
         ELSE /\ processes' = processes
              /\ pc' = "sa_loop"
              /\ i' = i + 1
    /\ process' = None
    /\ UNCHANGED << applications, mode, running, os, saRet, ret, waited, visit,
                    invKills, stopEntry, dead_processes, tickExited, tickDone,
                    sigCount, interrupted, sigInStart, lateSpawn, attempted, failed,
                     exitCode, calls, prevCall, aux >>

\* time.sleep(2) returns; next iteration
StartAllSleep ==
    /\ pc = "sa_sleep"
    /\ pc' = "sa_loop"
    /\ i' = i + 1
    /\ UNCHANGED << applications, mode, running, processes, os, process, saRet,
                    ret, waited, visit, invKills, stopEntry, dead_processes,
                    tickExited, tickDone, sigCount, interrupted, sigInStart, lateSpawn,
                    attempted, failed,  exitCode, calls,
                    prevCall, aux >>

\* self.running = True; the URL listing only prints; start_all returns to its
\* caller: run_interactive_mode (line 255), main's "start" branch (line 293) or
\* the library client.
StartAllReturn ==
    /\ pc = "sa_running"
    /\ running' = RunningAfterStart
    /\ pc' = CASE saRet = "interactive" -> "im_check"
               [] saRet = "start" -> "sm_while"
               [] OTHER -> "api_idle"
    /\ i' = 0
    /\ prevCall' = "start_all"
    /\ UNCHANGED << applications, mode, processes, os, process, saRet, ret, waited,
                    visit, invKills, stopEntry, dead_processes, tickExited,
                    tickDone, sigCount, interrupted, sigInStart, lateSpawn, attempted,
                    failed,  exitCode, calls, aux >>


\* ---------------------------------------------------------------- stop_all
\* Entry of stop_all from the given caller.
EnterStopAll(caller) ==
    /\ pc' = "st_entry"
    /\ ret' = caller

\* "if not self.running: return"   (variants: the guard inverted, and the guard
\* left out)
StopAllReturnsEarlyInverted == running

StopAllReturnsEarlyNever == FALSE

StopAllReturnsEarly == ~running

\* where control goes when stop_all returns: sys.exit(0) of the handler, the end
\* of run_interactive_mode (and of main, status 0), or the library client.
AfterStopAll ==
    CASE ret = "handler" -> "h_exit"
      [] ret = "finally" /\ mode = "api" -> "api_idle"
      [] ret = "finally" -> "exited"
      [] ret = "unwind" -> "exited"
      [] OTHER -> "api_idle"

\* what the return of a stop_all call is recorded as: a call that found the
\* supervisor running, a call that directly follows a returned stop_all, or a
\* call that found it not running
StopResult(entryRunning) ==
    IF prevCall \in {"stop_all_running", "stop_all_again"} THEN "stop_all_again"
    ELSE IF entryRunning THEN "stop_all_running"
    ELSE "stop_all_idle"

\* if not self.running: return -- else start "for process in self.processes"
StopAllEntry ==
    /\ pc = "st_entry"
    /\ stopEntry' = [running |-> running, procs |-> processes]
    /\ visit' = NoVisit
    /\ invKills' = NoKills
    /\ waited' = 0
    /\ IF StopAllReturnsEarly
         THEN /\ pc' = AfterStopAll
              /\ i' = 0
              /\ prevCall' = StopResult(running)
         ELSE /\ pc' = "st_loop"
              /\ i' = 1
              /\ UNCHANGED prevCall
    /\ UNCHANGED << applications, mode, running, processes, os, process, saRet,
                    ret, dead_processes, tickExited, tickDone, sigCount, interrupted,
                    sigInStart, lateSpawn, attempted, failed, 
                    exitCode, calls, aux >>

\* for process in self.processes:
StopAllLoop ==
    /\ pc = "st_loop"
    /\ pc' = IF i > Len(processes) THEN "st_clear" ELSE "st_poll"
    /\ UNCHANGED << applications, mode, running, processes, os, i, process, saRet,
                    ret, waited, visit, invKills, stopEntry, dead_processes,
                    tickExited, tickDone, sigCount, interrupted, sigInStart, lateSpawn,
                    attempted, failed,  exitCode, calls,
                    prevCall, aux >>

\* if process.poll() is None:
StopAllPoll ==
    /\ pc = "st_poll"
    /\ IF PollIsNone(processes[i])
         THEN /\ pc' = "st_term"
              /\ UNCHANGED << i, visit >>
         ELSE /\ pc' = "st_loop"
              /\ i' = i + 1
              /\ visit' = [visit EXCEPT ![processes[i]] = "dead"]
    /\ UNCHANGED << applications, mode, running, processes, os, process, saRet,
                    ret, waited, invKills, stopEntry, dead_processes, tickExited,
                    tickDone, sigCount, interrupted, sigInStart, lateSpawn, attempted,
                    failed,  exitCode, calls, prevCall, aux >>

\* "except Exception as e" around the body of the loop: an error raised while
\* stopping one process is logged and the loop goes on with the next process.
\* The pc after such an error.  (variant: the try around the whole loop, so
\* that the error leaves stop_all and ends the process)
AfterStopErrorAborts == "exited"

AfterStopError == "st_loop"

\* process.terminate() returns: the request is sent, process.wait(timeout=5) begins
TerminateOk ==
    /\ pc = "st_term"
    /\ os' = [os EXCEPT ![processes[i]].termed = TRUE]
    /\ visit' = [visit EXCEPT ![processes[i]] = "terminated"]
    /\ waited' = 0
    /\ pc' = "st_wait"
    /\ UNCHANGED << applications, mode, running, processes, i, process, saRet, ret,
                    invKills, stopEntry, dead_processes, tickExited, tickDone,
                    sigCount, interrupted, sigInStart, lateSpawn, attempted, failed,
                     exitCode, calls, prevCall, aux >>

\* process.terminate() raises (os.kill refused, e.g. PermissionError)
TerminateRaises ==
    /\ pc = "st_term"
    /\ os' = [os EXCEPT ![processes[i]].termed = TRUE]
    /\ visit' = [visit EXCEPT ![processes[i]] = "term_error"]
    /\ pc' = AfterStopError
    /\ i' = i + 1
    /\ UNCHANGED << applications, mode, running, processes, process, saRet, ret,
                    waited, invKills, stopEntry, dead_processes, tickExited,
                    tickDone, sigCount, interrupted, sigInStart, lateSpawn, attempted,
                    failed,  exitCode, calls, prevCall, aux >>

\* process.wait(timeout=5) raises TimeoutExpired: the grace period is over and
\* the OS has not reported the exit   (variant: no grace period, timeout=0)
WaitTimedOutAtOnce(h) == PollIsNone(h)

WaitTimedOut(h) == waited >= GracePeriod /\ PollIsNone(h)

\* one time unit of process.wait(timeout=5) passes with the child still running
WaitTick ==
    /\ pc = "st_wait"
    /\ PollIsNone(processes[i])
    /\ waited < GracePeriod
    /\ waited' = waited + 1
    /\ UNCHANGED << applications, mode, pc, running, processes, os, i, process,
                    saRet, ret, visit, invKills, stopEntry, dead_processes,
                    tickExited, tickDone, sigCount, interrupted, sigInStart, lateSpawn,
                    attempted, failed,  exitCode, calls,
                    prevCall, aux >>

\* process.wait(timeout=5) returns: the child exited within the grace period
WaitReturns ==
    /\ pc = "st_wait"
    /\ ~PollIsNone(processes[i])
    /\ ~WaitTimedOut(processes[i])
    /\ visit' = [visit EXCEPT ![processes[i]] = "exited"]
    /\ pc' = "st_loop"
    /\ i' = i + 1
    /\ waited' = 0
    /\ UNCHANGED << applications, mode, running, processes, os, process, saRet,
                    ret, invKills, stopEntry, dead_processes, tickExited, tickDone,
                    sigCount, interrupted, sigInStart, lateSpawn, attempted, failed,
                     exitCode, calls, prevCall, aux >>

\* except subprocess.TimeoutExpired: (the warning is printed)
WaitTimeout ==
    /\ pc = "st_wait"
    /\ WaitTimedOut(processes[i])
    /\ visit' = [visit EXCEPT ![processes[i]] = "timeout"]
    /\ pc' = "st_kill"
    /\ UNCHANGED << applications, mode, running, processes, os, i, process, saRet,
                    ret, waited, invKills, stopEntry, dead_processes, tickExited, tickDone,
                    sigCount, interrupted, sigInStart, lateSpawn, attempted, failed,
                     exitCode, calls, prevCall, aux >>

\* process.kill() returns
KillOk ==
    /\ pc = "st_kill"
    /\ invKills' = [invKills EXCEPT ![processes[i]] = @ + 1]
    /\ visit' = [visit EXCEPT ![processes[i]] = "killed"]
    /\ pc' = "st_loop"
    /\ i' = i + 1
    /\ waited' = 0
    /\ UNCHANGED << applications, mode, running, processes, os, process, saRet,
                    ret, stopEntry, dead_processes, tickExited, tickDone,
                    sigCount, interrupted, sigInStart, lateSpawn, attempted, failed,
                     exitCode, calls, prevCall, aux >>

\* process.kill() raises
KillRaises ==
    /\ pc = "st_kill"
    /\ invKills' = [invKills EXCEPT ![processes[i]] = @ + 1]
    /\ visit' = [visit EXCEPT ![processes[i]] = "kill_error"]
    /\ pc' = AfterStopError
    /\ i' = i + 1
    /\ waited' = 0
    /\ UNCHANGED << applications, mode, running, processes, os, process, saRet,
                    ret, stopEntry, dead_processes, tickExited, tickDone,
                    sigCount, interrupted, sigInStart, lateSpawn, attempted, failed,
                     exitCode, calls, prevCall, aux >>

\* the list self.processes.clear() leaves   (variant: the clear() forgotten)
ClearedKeepsAll(procs) == procs

Cleared(procs) == << >>

\* one more removal recorded for every handle that left the list
CountRemovals(before, after) ==
    [h \in Handles |->
        IF (\E k \in 1..Len(before) : before[k] = h)
           /\ ~(\E k \in 1..Len(after) : after[k] = h)
          THEN [os[h] EXCEPT !.removed = @ + 1]
          ELSE os[h]]

\* self.processes.clear()
StopAllClear ==
    /\ pc = "st_clear"
    /\ processes' = Cleared(processes)
    /\ os' = CountRemovals(processes, processes')
    /\ pc' = "st_flag"
    /\ i' = 0
    /\ UNCHANGED << applications, mode, running, process, saRet, ret, waited, visit,
                    invKills, stopEntry, dead_processes, tickExited, tickDone,
                    sigCount, interrupted, sigInStart, lateSpawn, attempted, failed,
                     exitCode, calls, prevCall, aux >>

\* self.running = False; stop_all returns
StopAllReturn ==
    /\ pc = "st_flag"
    /\ running' = FALSE
    /\ pc' = AfterStopAll
    /\ prevCall' = StopResult(stopEntry.running)
    /\ UNCHANGED stopEntry
    /\ UNCHANGED << applications, mode, processes, os, i, process, saRet, ret,
                    waited, visit, invKills, dead_processes, tickExited, tickDone,
                    sigCount, interrupted, sigInStart, lateSpawn, attempted, failed,
                     exitCode, calls, aux >>


\* ------------------------------------------------------ run_interactive_mode
\* if not self.processes: print(...); return     (line 255)
InteractiveCheck ==
    /\ pc = "im_check"
    /\ pc' = IF processes = << >>
               THEN (IF mode = "api" THEN "api_idle" ELSE "exited")
               ELSE "im_while"
    /\ UNCHANGED prevCall
    /\ UNCHANGED << applications, mode, running, processes, os, i, process, saRet,
                    ret, waited, visit, invKills, stopEntry, dead_processes,
                    tickExited, tickDone, sigCount, interrupted, sigInStart, lateSpawn,
                    attempted, failed,  exitCode, calls, aux >>

\* while self.running:   (when it is false the finally clause runs stop_all)
MonitorWhile ==
    /\ pc = "im_while"
    /\ IF running
         THEN /\ pc' = "im_sleep"
              /\ ret' = ret
         ELSE EnterStopAll("finally")
    /\ UNCHANGED << applications, mode, running, processes, os, i, process, saRet,
                    waited, visit, invKills, stopEntry, dead_processes, tickExited,
                    tickDone, sigCount, interrupted, sigInStart, lateSpawn, attempted,
                    failed,  exitCode, calls, prevCall, aux >>

\* time.sleep(10) returns; dead_processes = []; the poll pass begins
MonitorSleep ==
    /\ pc = "im_sleep"
    /\ pc' = "im_poll"
    /\ i' = 1
    /\ dead_processes' = << >>
    /\ tickExited' = {h \in Tracked : ~os[h].alive}
    /\ tickDone' = FALSE
    /\ UNCHANGED << applications, mode, running, processes, os, process, saRet,
                    ret, waited, visit, invKills, stopEntry, sigCount, interrupted,
                    sigInStart, lateSpawn, attempted, failed, 
                    exitCode, calls, prevCall, aux >>

\* for i, process in enumerate(self.processes):
\*     if process.poll() is not None: dead_processes.append(i)
MonitorPoll ==
    /\ pc = "im_poll"
    /\ IF i > Len(processes)
         THEN /\ pc' = "im_pop"
              /\ UNCHANGED << i, dead_processes >>
         ELSE /\ pc' = "im_poll"
              /\ i' = i + 1
              /\ dead_processes' = IF PollIsNone(processes[i])
                                     THEN dead_processes
                                     ELSE Append(dead_processes, i)
    /\ UNCHANGED << applications, mode, running, processes, os, process, saRet,
                    ret, waited, visit, invKills, stopEntry, tickExited, tickDone,
                    sigCount, interrupted, sigInStart, lateSpawn, attempted, failed,
                     exitCode, calls, prevCall, aux >>

\* list.pop(k) for a 1-based index k; an index out of range leaves the list
Pop(procs, k) ==
    IF k \in 1..Len(procs)
      THEN SubSeq(procs, 1, k - 1) \o SubSeq(procs, k + 1, Len(procs))
      ELSE procs

\* (variant of PopDead below: the indexes popped in ascending order)
RECURSIVE PopForward(_, _)
PopForward(procs, dead) ==
    IF dead = << >> THEN procs
    ELSE PopForward(Pop(procs, Head(dead)), Tail(dead))

\* (variant of PopDead below: only the last index recorded is popped)
PopLast(procs, dead) ==
    IF dead = << >> THEN procs ELSE Pop(procs, dead[Len(dead)])

\* for i in reversed(dead_processes): self.processes.pop(i)
RECURSIVE PopDead(_, _)
PopDead(procs, dead) ==
    IF dead = << >> THEN procs
    ELSE PopDead(Pop(procs, dead[Len(dead)]), SubSeq(dead, 1, Len(dead) - 1))

\* "if dead_processes: ... if not self.processes: ... break": the while loop is
\* left when the pass found dead processes and the pops emptied the list
\* (variant: the break forgotten)
LoopNeverBreaks(dead, procs) == FALSE

LoopBreaks(dead, procs) == dead # << >> /\ procs = << >>

\* if dead_processes: pop them; if not self.processes: break (and the finally
\* clause runs stop_all); otherwise the next iteration of the while loop
MonitorPop ==
    /\ pc = "im_pop"
    /\ processes' = PopDead(processes, dead_processes)
    /\ os' = CountRemovals(processes, processes')
    /\ IF LoopBreaks(dead_processes, processes')
         THEN EnterStopAll("finally")
         ELSE /\ pc' = "im_while"
              /\ ret' = ret
    /\ dead_processes' = << >>
    /\ i' = 0
    /\ tickDone' = TRUE
    /\ UNCHANGED << applications, mode, running, process, saRet, waited, visit,
                    invKills, stopEntry, tickExited, sigCount, interrupted, sigInStart,
                    lateSpawn, attempted, failed,  exitCode, calls,
                    prevCall, aux >>

\* -------------------------------------------------------- _signal_handler
\* the try block a position of the control thread lies in, as far as the
\* unwinding of SystemExit is concerned: the try of start_application (lines
\* 90-133), the try of run_interactive_mode (lines 260-277), or neither (the
\* try blocks of stop_all and of main's "start" branch have no clause that
\* sees a SystemExit)
TryBlockOf(p) ==
    CASE p = "sa_popen" -> "start_application"
      [] p \in MonitorPcs -> "run_interactive_mode"
      [] OTHER -> "other"

\* SIGINT or SIGTERM is delivered: the handler prints and calls self.stop_all()
SignalDeliver ==
    /\ pc # "exited"
    /\ sigCount < MaxSignals
    /\ sigCount' = sigCount + 1
    /\ interrupted' = IF interrupted = "none" THEN TryBlockOf(pc) ELSE interrupted
    /\ sigInStart' = (sigInStart \/ pc \in StartAllPcs)
    /\ EnterStopAll("handler")
    /\ UNCHANGED << applications, mode, running, processes, os, i, process, saRet,
                    waited, visit, invKills, stopEntry, dead_processes, tickExited,
                    tickDone, lateSpawn, attempted, failed,  exitCode,
                    calls, prevCall, aux >>

\* the status of sys.exit(0)
HandlerExitStatus == 0

\* sys.exit(0): SystemExit unwinds the interrupted code.  Inside the try of
\* start_application it meets "except Exception"; inside the try of
\* run_interactive_mode it meets "except KeyboardInterrupt" (no match) and the
\* finally clause, which calls stop_all; then the interpreter exits.
HandlerExit ==
    /\ pc = "h_exit"
    /\ exitCode' = HandlerExitStatus
    /\ interrupted' = "none"
    /\ IF interrupted = "start_application" /\ StartApplicationCatches("SystemExit")
         THEN /\ pc' = "sa_append"
              /\ ret' = ret
         ELSE IF interrupted = "run_interactive_mode"
         THEN EnterStopAll("unwind")
         ELSE /\ pc' = "exited"
              /\ ret' = ret
    /\ UNCHANGED << applications, mode, running, processes, os, i, process, saRet,
                    waited, visit, invKills, stopEntry, dead_processes, tickExited,
                    tickDone, sigCount, sigInStart, lateSpawn, attempted, failed,
                     calls, prevCall, aux >>

\* ------------------------------------------------------------ the children
\* A running child exits: on its own, or as its response to a signal it was
\* sent.  Nothing forces it to: a child may ignore SIGTERM, and the OS may take
\* arbitrarily long to end a killed one.  Only a child the supervisor still
\* holds a handle of is followed: once the handle is dropped from the tracked
\* set no code looks at the child again.
ChildExit(h) ==
    /\ pc # "exited"
    /\ h \in Tracked \cup {process}
    /\ os[h].alive
    /\ os' = [os EXCEPT ![h].alive = FALSE]
    /\ UNCHANGED << applications, mode, pc, running, processes, i, process, saRet,
                    ret, waited, visit, invKills, stopEntry, dead_processes,
                    tickExited, tickDone, sigCount, interrupted, sigInStart, lateSpawn,
                    attempted, failed,  exitCode, calls,
                    prevCall, aux >>

\* -------------------------------------------------------------------- main
\* no argument: launcher.run_interactive_mode(), which calls start_all
MainInteractive ==
    /\ pc = "main"
    /\ mode' = "interactive"
    /\ EnterStartAll("interactive")
    /\ UNCHANGED << applications, running, processes, os, process, ret, waited,
                    visit, invKills, dead_processes, tickExited, tickDone,
                    sigCount, interrupted, sigInStart, lateSpawn, exitCode, calls, aux >>

\* "start": launcher.start_all(), then "while True: time.sleep(1)"
MainStart ==
    /\ pc = "main"
    /\ mode' = "start"
    /\ EnterStartAll("start")
    /\ UNCHANGED << applications, running, processes, os, process, ret, waited,
                    visit, invKills, dead_processes, tickExited, tickDone,
                    sigCount, interrupted, sigInStart, lateSpawn, exitCode, calls, aux >>

\* while True:
StartModeWhile ==
    /\ pc = "sm_while"
    /\ pc' = "sm_sleep"
    /\ UNCHANGED << applications, mode, running, processes, os, i, process, saRet,
                    ret, waited, visit, invKills, stopEntry, dead_processes,
                    tickExited, tickDone, sigCount, interrupted, sigInStart, lateSpawn,
                    attempted, failed,  exitCode, calls,
                    prevCall, aux >>

\* time.sleep(1) returns
StartModeSleep ==
    /\ pc = "sm_sleep"
    /\ pc' = "sm_while"
    /\ UNCHANGED << applications, mode, running, processes, os, i, process, saRet,
                    ret, waited, visit, invKills, stopEntry, dead_processes,
                    tickExited, tickDone, sigCount, interrupted, sigInStart, lateSpawn,
                    attempted, failed,  exitCode, calls,
                    prevCall, aux >>

\* ------------------------------------------------------------ specification
\* the steps of the supervisor's own code
Control ==
    \/ StartAllLoop \/ PopenOk \/ PopenFails \/ StartAllAppend \/ StartAllSleep
    \/ StartAllReturn
    \/ StopAllEntry \/ StopAllLoop \/ StopAllPoll \/ TerminateOk \/ TerminateRaises
    \/ WaitTick \/ WaitReturns \/ WaitTimeout \/ KillOk \/ KillRaises
    \/ StopAllClear \/ StopAllReturn
    \/ InteractiveCheck \/ MonitorWhile \/ MonitorSleep \/ MonitorPoll \/ MonitorPop
    \/ HandlerExit

\* what happens to the supervisor from outside: signals, children exiting
Environment ==
    \/ SignalDeliver
    \/ \E h \in Handles : ChildExit(h)

Supervisor == Control \/ Environment

\* main()'s own steps
Main == MainInteractive \/ MainStart \/ StartModeWhile \/ StartModeSleep

Next == Main \/ Supervisor

Spec == Init /\ [][Next]_vars

\* The interpreter keeps running the control thread: every sleep and every
\* process.wait(timeout=5) returns after a bounded time, so the supervisor's
\* code always takes its next step.  Nothing is assumed of signals or children.
SpecFair == Spec /\ WF_vars(Main \/ Control)

\* ------------------------------------------------- the class used as a library
\* A client that holds a NetworkPlatformLauncher and calls its public methods
\* in any order, each call running to its return before the next.  Signals
\* are delivered as in the program.  The registry has up to MaxClientApps
\* entries and the client makes up to MaxCalls calls.
InitApi ==
    /\ InitCommon
    /\ applications \in {Registry(n) : n \in 0..MaxClientApps}
    /\ mode = "api"
    /\ pc = "api_idle"

\* launcher.start_all()
ApiStartAll ==
    /\ pc = "api_idle"
    /\ calls < MaxCalls
    /\ calls' = calls + 1
    /\ EnterStartAll("api")
    /\ UNCHANGED << applications, mode, running, processes, os, process, ret,
                    waited, visit, invKills, dead_processes, tickExited, tickDone,
                    sigCount, interrupted, sigInStart, lateSpawn, exitCode, aux >>

\* launcher.stop_all()
ApiStopAll ==
    /\ pc = "api_idle"
    /\ calls < MaxCalls
    /\ calls' = calls + 1
    /\ EnterStopAll("api")
    /\ UNCHANGED << applications, mode, running, processes, os, i, process, saRet,
                    waited, visit, invKills, stopEntry, dead_processes, tickExited,
                    tickDone, sigCount, interrupted, sigInStart, lateSpawn, attempted,
                    failed,  exitCode, prevCall, aux >>

\* launcher.run_interactive_mode()
ApiRunInteractive ==
    /\ pc = "api_idle"
    /\ calls < MaxCalls
    /\ calls' = calls + 1
    /\ EnterStartAll("interactive")
    /\ UNCHANGED << applications, mode, running, processes, os, process, ret,
                    waited, visit, invKills, dead_processes, tickExited, tickDone,
                    sigCount, interrupted, sigInStart, lateSpawn, exitCode, aux >>

NextApi ==
    \/ ApiStartAll \/ ApiStopAll \/ ApiRunInteractive
    \/ Supervisor

SpecApi == InitApi /\ [][NextApi]_vars

\* ------------------------------------------------- the monitor loop by itself
\* The monitoring loop of run_interactive_mode from the moment start_all has
\* returned with every launch successful: up to MaxTracked handles are tracked
\* in launch order, any of the children may already have exited, and the others
\* may exit at any time.  The states are those the program has at line 261
\* for a registry of that size.
InitTick ==
    /\ applications \in {Registry(n) : n \in 1..MaxTracked}
    /\ \E exited \in SUBSET (1..Len(applications)) :
          os = [k \in 1..Len(applications) |->
                   [app |-> applications[k].name, alive |-> k \notin exited,
                    termed |-> FALSE, removed |-> 0]]
    /\ processes = [k \in 1..Len(applications) |-> k]
    /\ visit = [k \in 1..Len(applications) |-> "unvisited"]
    /\ invKills = [k \in 1..Len(applications) |-> 0]
    /\ attempted = {applications[k].name : k \in 1..Len(applications)}
    /\ mode = "interactive"
    /\ pc = "im_while"
    /\ running = RunningAfterStart
    /\ saRet = "interactive"
    /\ prevCall = "start_all"
    /\ i = 0
    /\ process = None
    /\ ret = "none"
    /\ waited = 0
    /\ stopEntry = [running |-> FALSE, procs |-> << >>]
    /\ dead_processes = << >>
    /\ tickExited = {}
    /\ tickDone = FALSE
    /\ sigCount = 0
    /\ interrupted = "none"
    /\ sigInStart = FALSE
    /\ lateSpawn = FALSE
    /\ failed = {}
    /\ exitCode = 0
    /\ calls = 0
    /\ report = << >>
    /\ relay = RelayOff

NextTick ==
    \/ MonitorWhile \/ MonitorSleep \/ MonitorPoll \/ MonitorPop
    \/ \E h \in Handles : ChildExit(h)

SpecTick == InitTick /\ [][NextTick]_vars


\* ------------------------------------------------ check_application_health
\* What one probe (requests.get with timeout=3) can meet: a response with a
\* status code and a body, a refused connection, or a timeout.  A body is a
\* JSON object whose "success" member is true, false or missing, a JSON value
\* that is no object (a list, a number), or text that is no JSON at all.
\* The code reads the body of a 200 response only, so a response with another
\* status code (500 stands for them) is followed with one body, an error page.
Bodies == {"success_true", "success_false", "success_absent", "not_object",
           "not_json"}

Outcomes ==
    [kind : {"response"}, code : {HttpOk}, body : Bodies]
    \cup [kind : {"response"}, code : {500}, body : {"not_json"}]
    \cup [kind : {"connection_error", "timeout"}, code : {0}, body : {"none"}]

\* the registries the health check is followed on: up to MaxHealthApps
\* descriptors, each managed or static
HealthRegistries ==
    UNION {{[k \in 1..n |-> [Application(k) EXCEPT !.type = t[k]]] :
                t \in [1..n -> {"managed", "static"}]} : n \in 0..MaxHealthApps}

\* app_config.get('type') == 'static'
IsStatic(app) == app.type = "static"

\* data.get('success') on the object a body parses to: the member's value, or
\* None when it is missing
DataGetSuccess(body) ==
    CASE body = "success_true" -> "true"
      [] body = "success_false" -> "false"
      [] OTHER -> "None"

\* the truth value Python gives it in "if data.get('success')"
Truthy(v) == v \notin {"false", "None"}

\* static application: "Healthy" if response.status_code == 200 else "Error"
\* (variant: any response counts as healthy)
StaticStatusAnyResponse(code) == "Healthy"

StaticStatus(code) == IF code = HttpOk THEN "Healthy" ELSE "Error"

\* managed application, the body being a JSON object (lines 237-242)
\* (variant: the success flag is not looked at)
ManagedStatusIgnoresFlag(code, body) ==
    IF code = HttpOk THEN "Healthy" ELSE "Error"

ManagedStatus(code, body) ==
    IF code = HttpOk
      THEN (IF Truthy(DataGetSuccess(body)) THEN "Healthy" ELSE "Warning")
      ELSE "Error"

\* The exception the body of the try raises for an application and a probe
\* outcome, or "none".  requests.get raises ConnectionError or Timeout, both
\* RequestExceptions.  For a managed application answering 200, response.json()
\* raises on a body that is no JSON: requests.exceptions.JSONDecodeError (a
\* RequestException) in recent versions of the library, a plain ValueError in
\* older ones (newLib tells which); and data.get raises AttributeError when
\* the JSON value is no object.
Raised(app, outcome, newLib) ==
    CASE outcome.kind \in {"connection_error", "timeout"} -> "RequestException"
      [] outcome.kind = "response" /\ ~IsStatic(app) /\ outcome.code = HttpOk
            /\ outcome.body = "not_json" ->
                (IF newLib THEN "RequestException" ELSE "Exception")
      [] outcome.kind = "response" /\ ~IsStatic(app) /\ outcome.code = HttpOk
            /\ outcome.body = "not_object" -> "Exception"
      [] OTHER -> "none"

\* the except clauses of the try inside the loop: RequestException, then
\* Exception   (variant: the second clause missing)
CatchesRequestExceptionOnly(exc) == exc = "RequestException"

CatchesProbeError(exc) == exc \in {"RequestException", "Exception"}

\* the status printed for the application
StatusLine(app, outcome, newLib) ==
    CASE Raised(app, outcome, newLib) = "RequestException" -> "Not responding"
      [] Raised(app, outcome, newLib) = "Exception" -> "Error - exception"
      [] IsStatic(app) -> StaticStatus(outcome.code)
      [] OTHER -> ManagedStatus(outcome.code, outcome.body)

\* main(), command "health": launcher.check_application_health()
MainHealth ==
    /\ pc = "main"
    /\ mode' = "health"
    /\ pc' = "hc_loop"
    /\ i' = 1
    /\ report' = << >>
    /\ UNCHANGED << applications, running, processes, os, process, saRet, ret,
                    waited, visit, invKills, stopEntry, dead_processes, tickExited,
                    tickDone, sigCount, interrupted, sigInStart, lateSpawn, attempted,
                    failed, exitCode, calls, prevCall, relay >>

\* for app_config in self.applications:   (when exhausted the method returns
\* and main ends)
HealthLoop ==
    /\ pc = "hc_loop"
    /\ pc' = IF i > Len(applications) THEN "exited" ELSE "hc_probe"
    /\ UNCHANGED << applications, mode, running, processes, os, i, process, saRet,
                    ret, waited, visit, invKills, stopEntry, dead_processes,
                    tickExited, tickDone, sigCount, interrupted, sigInStart, lateSpawn,
                    attempted, failed, exitCode, calls, prevCall, report, relay >>

\* The body of the loop for one application: the request, the classification
\* and the print of the status line, or the except clause that prints instead.
\* An exception no clause catches leaves the method and ends the program with
\* a traceback (status 1).
HealthProbe ==
    /\ pc = "hc_probe"
    /\ \E outcome \in Outcomes, newLib \in BOOLEAN :
          LET exc == Raised(applications[i], outcome, newLib) IN
          IF exc = "none" \/ CatchesProbeError(exc)
            THEN /\ report' = Append(report,
                        [name |-> applications[i].name,
                         type |-> applications[i].type,
                         outcome |-> outcome,
                         status |-> StatusLine(applications[i], outcome, newLib)])
                 /\ pc' = "hc_loop"
                 /\ i' = i + 1
                 /\ exitCode' = exitCode
            ELSE /\ report' = report
                 /\ pc' = "exited"
                 /\ i' = i
                 /\ exitCode' = 1
    /\ UNCHANGED << applications, mode, running, processes, os, process, saRet,
                    ret, waited, visit, invKills, stopEntry, dead_processes,
                    tickExited, tickDone, sigCount, interrupted, sigInStart, lateSpawn,
                    attempted, failed, calls, prevCall, relay >>

\* The program run as "health", for any registry of HealthRegistries.  The
\* signal handlers are installed in this mode too: the handler's stop_all finds
\* running False and sys.exit(0) ends the check where it stands.
InitHealth ==
    /\ InitCommon
    /\ applications \in HealthRegistries
    /\ mode = "none"
    /\ pc = "main"

NextHealth ==
    \/ MainHealth \/ HealthLoop \/ HealthProbe
    \/ SignalDeliver \/ StopAllEntry \/ HandlerExit

SpecHealth == InitHealth /\ [][NextHealth]_vars


\* --------------------------------------------------------- _monitor_output
\* The thread start_application starts for a child, followed from the moment
\* the first child of the registry has been spawned: what the child writes to
\* its two pipes, what the thread reads from them and what it prints.  A line
\* is a sequence of characters; the child writes decodable text only, so that
\* readline never raises and the "except Exception: pass" of the thread is
\* not entered.  A line carries the number of its write, which tells apart
\* two lines of the same text.
LineTexts ==
    {<< "o", "k" >>,
     << "w", "a", "r", "n" >>,
     << "E", "R", "R", "O", "R" >>,
     << "a", "n", " ", "E", "r", "r", "o", "r" >>}

\* str.lower(), character by character
LowerChar(c) ==
    CASE c = "E" -> "e"
      [] c = "R" -> "r"
      [] c = "O" -> "o"
      [] OTHER -> c

Lower(line) == [k \in 1..Len(line) |-> LowerChar(line[k])]

\* "sub in s"
Contains(sub, s) ==
    /\ Len(sub) <= Len(s)
    /\ \E k \in 1..(Len(s) - Len(sub) + 1) : SubSeq(s, k, k + Len(sub) - 1) = sub

\* 'error' in line.lower()
ContainsError(line) == Contains(<< "e", "r", "r", "o", "r" >>, Lower(line))

\* the lines the child has written so far
Written == Len(relay.consumed) + Len(relay.stdout) + Len(relay.stderr)

\* the child writes a line to its stdout or to its stderr
ChildWrite(stream, text) ==
    /\ relay.pc # "off"
    /\ PollIsNone(relay.process)
    /\ Written < MaxLines
    /\ relay' = IF stream = "stdout"
                  THEN [relay EXCEPT !.stdout =
                            Append(@, [id |-> Written + 1, text |-> text])]
                  ELSE [relay EXCEPT !.stderr =
                            Append(@, [id |-> Written + 1, text |-> text])]
    /\ UNCHANGED << applications, mode, pc, running, processes, os, i, process,
                    saRet, ret, waited, visit, invKills, stopEntry, dead_processes,
                    tickExited, tickDone, sigCount, interrupted, sigInStart,
                    lateSpawn, attempted, failed, exitCode, calls, prevCall,
                    report >>

\* while process.poll() is None:
RelayPoll ==
    /\ relay.pc = "poll"
    /\ relay' = [relay EXCEPT !.pc = IF PollIsNone(relay.process)
                                       THEN "read_stdout" ELSE "done"]
    /\ UNCHANGED << applications, mode, pc, running, processes, os, i, process,
                    saRet, ret, waited, visit, invKills, stopEntry, dead_processes,
                    tickExited, tickDone, sigCount, interrupted, sigInStart,
                    lateSpawn, attempted, failed, exitCode, calls, prevCall,
                    report >>

\* readline() on a pipe returns when a whole line is there, or, with '', when
\* the pipe is at its end: the child has exited and nothing is left to read.
\* Until then it blocks.
ReadlineReturns(pipe) == pipe # << >> \/ ~PollIsNone(relay.process)

\* a stderr line is printed "if line and 'error' in line.lower()"
PrintsStderr(text) == ContainsError(text)

\* line = process.stdout.readline(); if line: print(f"[{app_name}] ...")
RelayReadStdout ==
    /\ relay.pc = "read_stdout"
    /\ ReadlineReturns(relay.stdout)
    /\ relay' =
          IF relay.stdout # << >>
            THEN [relay EXCEPT
                    !.pc = "read_stderr",
                    !.stdout = Tail(@),
                    !.consumed = Append(@, [stream |-> "stdout",
                                            id |-> Head(relay.stdout).id,
                                            text |-> Head(relay.stdout).text]),
                    !.printed = Append(@, [app_name |-> relay.app_name,
                                           tag |-> "none",
                                           id |-> Head(relay.stdout).id,
                                           text |-> Head(relay.stdout).text])]
            ELSE [relay EXCEPT !.pc = "read_stderr"]
    /\ UNCHANGED << applications, mode, pc, running, processes, os, i, process,
                    saRet, ret, waited, visit, invKills, stopEntry, dead_processes,
                    tickExited, tickDone, sigCount, interrupted, sigInStart,
                    lateSpawn, attempted, failed, exitCode, calls, prevCall,
                    report >>

\* line = process.stderr.readline()
\* if line and 'error' in line.lower(): print(f"[{app_name}] ERROR: ...")
RelayReadStderr ==
    /\ relay.pc = "read_stderr"
    /\ ReadlineReturns(relay.stderr)
    /\ relay' =
          IF relay.stderr # << >>
            THEN [relay EXCEPT
                    !.pc = "poll",
                    !.stderr = Tail(@),
                    !.consumed = Append(@, [stream |-> "stderr",
                                            id |-> Head(relay.stderr).id,
                                            text |-> Head(relay.stderr).text]),
                    !.printed =
                        IF PrintsStderr(Head(relay.stderr).text)
                          THEN Append(@, [app_name |-> relay.app_name,
                                          tag |-> "ERROR",
                                          id |-> Head(relay.stderr).id,
                                          text |-> Head(relay.stderr).text])
                          ELSE @]
            ELSE [relay EXCEPT !.pc = "poll"]
    /\ UNCHANGED << applications, mode, pc, running, processes, os, i, process,
                    saRet, ret, waited, visit, invKills, stopEntry, dead_processes,
                    tickExited, tickDone, sigCount, interrupted, sigInStart,
                    lateSpawn, attempted, failed, exitCode, calls, prevCall,
                    report >>

\* The state start_application is in, in interactive mode, when Popen has
\* returned for the first entry of the registry and the thread has started.
InitRelay ==
    /\ applications \in {Registry(n) : n \in 1..MaxApps}
    /\ mode = "interactive"
    /\ pc = "sa_append"
    /\ saRet = "interactive"
    /\ i = 1
    /\ os = << [app |-> applications[1].name, alive |-> TRUE, termed |-> FALSE,
                removed |-> 0] >>
    /\ process = 1
    /\ visit = << "unvisited" >>
    /\ invKills = << 0 >>
    /\ attempted = {applications[1].name}
    /\ relay = [RelayOff EXCEPT !.process = 1,
                                !.app_name = applications[1].name,
                                !.pc = "poll"]
    /\ running = FALSE
    /\ processes = << >>
    /\ ret = "none"
    /\ waited = 0
    /\ stopEntry = [running |-> FALSE, procs |-> << >>]
    /\ dead_processes = << >>
    /\ tickExited = {}
    /\ tickDone = FALSE
    /\ sigCount = 0
    /\ interrupted = "none"
    /\ sigInStart = FALSE
    /\ lateSpawn = FALSE
    /\ failed = {}
    /\ exitCode = 0
    /\ calls = 0
    /\ prevCall = "none"
    /\ report = << >>

\* the steps of the thread
RelayThread == RelayPoll \/ RelayReadStdout \/ RelayReadStderr

\* the child and its relay thread by themselves
NextRelay ==
    \/ RelayThread
    \/ \E stream \in {"stdout", "stderr"}, text \in LineTexts :
          ChildWrite(stream, text)
    \/ \E h \in Handles : ChildExit(h)

SpecRelay == InitRelay /\ [][NextRelay]_vars

\* The interpreter schedules the thread: whenever it can take a step (its
\* readline is not blocked) it eventually does.  Nothing is assumed of the
\* child: it need not write and need not exit.
SpecRelayFair == SpecRelay /\ WF_vars(RelayThread)


\* ------------------------------------------------------------------ claims
AppNames == [k \in 1..Len(applications) |-> applications[k].name]

AllNames == {applications[k].name : k \in 1..Len(applications)}

\* the applications of the tracked handles, in list order
TrackedApps == [k \in 1..Len(processes) |-> os[processes[k]].app]

\* start_all has returned and nothing has touched the tracked set since
StartAllReturned == pc \in {"im_check", "sm_while", "sm_sleep"}

\* the latest stop_all found the supervisor running and has returned
StopAllReturned == stopEntry.running /\ pc \in {"h_exit", "exited", "api_idle"}

\* what a stop_all invocation records for a handle it sent a request to
Requested == {"terminated", "term_error", "exited", "timeout", "killed", "kill_error"}

\* C1: when the supervisor exits because of a signal handled while start_all
\* was still launching, every child launched so far has been sent a termination
\* request or has exited: none is left running unsignalled.
C1_LaunchedChildrenTerminated ==
    (pc = "exited" /\ sigInStart) =>
        \A h \in Handles : os[h].termed \/ ~os[h].alive

\* C2: within a stop_all invocation, a child that was alive when reached and
\* whose wait returned within the grace period is sent no kill; a child whose
\* wait timed out is sent exactly one kill, and the timeout is declared only
\* after the full grace period of GracePeriod units.  (A timed-out wait is
\* followed at once by the kill; the only state in between is the one where
\* kill() is about to be called, or where a signal has just pre-empted the
\* invocation and the handler's own stop_all is starting.)
C2_KillOnlyAfterGrace ==
    \A h \in Handles :
        /\ visit[h] \in {"terminated", "exited", "term_error"} => invKills[h] = 0
        /\ visit[h] \in {"killed", "kill_error"} => invKills[h] = 1
        /\ visit[h] = "timeout" =>
              /\ waited = GracePeriod
              /\ invKills[h] = 0
              /\ \/ pc = "st_kill" /\ processes[i] = h
                 \/ pc = "st_entry" /\ ret = "handler"

C2_Witness ==
    \E g, h \in Handles :
        /\ visit[g] = "exited" /\ invKills[g] = 0
        /\ visit[h] = "killed" /\ invKills[h] = 1

\* C3: once a stop_all that found the supervisor running has returned, the
\* tracked set is empty and running is False, and they stay so through a
\* stop_all called next; that second call sends no signal to any process.
C3_StopAllIdempotent ==
    /\ prevCall \in {"stop_all_running", "stop_all_again"} =>
          processes = << >> /\ ~running
    /\ prevCall = "stop_all_again" =>
          \A h \in Handles : visit[h] = "unvisited" /\ invKills[h] = 0

C3_Witness ==
    /\ prevCall = "stop_all_again"
    /\ \E h \in Handles : os[h].termed

\* C4: a tracked process found exited when a monitor tick begins its poll pass
\* is out of the tracked set when the tick ends; a handle is removed at most
\* once and a removed handle is never tracked (so never polled, signalled or
\* removed) again.
C4_ExitedRemovedOnce ==
    /\ tickDone => \A h \in tickExited : h \notin Tracked
    /\ \A h \in Handles :
          /\ os[h].removed <= 1
          /\ os[h].removed > 0 => h \notin Tracked

C4_Witness ==
    /\ tickDone
    /\ pc = "im_while"
    /\ tickExited # {}
    /\ processes # << >>
    /\ \E h \in tickExited : os[h].removed = 1 /\ ~os[h].termed

\* C5: when start_all returns after every launch succeeded, the tracked set
\* holds exactly one handle per registry entry, in registry order, and running
\* is True.
C5_AllLaunchedTracked ==
    (StartAllReturned /\ failed = {}) =>
        /\ running
        /\ Len(processes) = Len(applications)
        /\ \A k \in 1..Len(processes) : processes[k] # None
        /\ TrackedApps = AppNames

C5_Witness ==
    /\ pc = "im_check"
    /\ failed = {}
    /\ Len(processes) >= 2

\* C6: whatever set of spawns fails, start_all calls start_application for
\* every registry entry and returns with running True and with the tracked set
\* holding exactly the handles of the entries whose spawn succeeded (no None);
\* a spawn failure alone never ends the supervisor.
C6_SpawnFailuresIsolated ==
    /\ StartAllReturned =>
          /\ running
          /\ attempted = AllNames
          /\ \A k \in 1..Len(processes) : processes[k] # None
          /\ TrackedApps = SelectSeq(AppNames, LAMBDA a : a \notin failed)
    /\ (pc = "exited" /\ sigCount = 0) => (attempted = AllNames /\ exitCode = 0)

C6_Witness ==
    /\ StartAllReturned
    /\ failed # {}
    /\ processes # << >>
    /\ 1 \in failed

\* C7: a signal delivered once start_all has completed leads to the supervisor
\* process having exited with status 0, the tracked set empty, running False,
\* and every child still running having been sent a termination request.
C7_SignalShutsDown ==
    (sigCount > 0 /\ ~sigInStart) ~>
        /\ pc = "exited"
        /\ exitCode = 0
        /\ processes = << >>
        /\ ~running
        /\ \A h \in Handles : os[h].alive => os[h].termed

C7_Witness ==
    /\ pc = "exited"
    /\ sigCount > 0
    /\ ~sigInStart
    /\ \E h \in Handles : os[h].termed /\ os[h].alive
    /\ \E h \in Handles : os[h].termed /\ ~os[h].alive

\* C8: when a stop_all that found the supervisor running ends, the tracked set
\* is empty and running is False, and every handle that was tracked was either
\* found exited or sent the termination request, whatever errors terminate()
\* or kill() raised on the others and whether or not the processes exited.
C8_StopAllCompletes ==
    StopAllReturned =>
        /\ processes = << >>
        /\ ~running
        /\ \A k \in 1..Len(stopEntry.procs) :
              \/ visit[stopEntry.procs[k]] = "dead"
              \/ /\ visit[stopEntry.procs[k]] \in Requested
                 /\ os[stopEntry.procs[k]].termed

C8_Witness ==
    /\ StopAllReturned
    /\ Len(stopEntry.procs) >= 2
    /\ visit[stopEntry.procs[1]] \in {"term_error", "kill_error"}
    /\ visit[stopEntry.procs[2]] = "killed"
    /\ os[stopEntry.procs[2]].alive

\* C9: no child is spawned once a signal has been handled: the entries of the
\* registry not yet spawned at that moment are never spawned.
C9_NoLaunchAfterSignal == ~lateSpawn

C9_Witness ==
    /\ pc = "exited"
    /\ sigInStart
    /\ Len(os) = 1
    /\ attempted # AllNames

\* C10: the tracked set never holds two handles of the same application.
C10_OneHandlePerApplication ==
    \A j, k \in 1..Len(processes) :
        os[processes[j]].app = os[processes[k]].app => j = k

\* the handles the poll pass in progress has recorded as exited
FoundExited == {processes[dead_processes[k]] : k \in 1..Len(dead_processes)}

\* every tracked process has exited
AllTrackedExited == processes # << >> /\ \A h \in Tracked : ~os[h].alive

\* C11: when run_interactive_mode returns (the program then ends without a
\* signal having been handled), running is False and the tracked set is empty,
\* also when every launch of a non-empty registry failed.
C11_InteractiveReturnsStopped ==
    (mode = "interactive" /\ pc = "exited" /\ sigCount = 0
        /\ applications # << >>) =>
        (~running /\ processes = << >>)

\* C12: a stop_all called while running is False returns having sent no
\* terminate and no kill, with the tracked set and running as it found them,
\* whatever the tracked set holds.
C12_StopAllIdleNoOp ==
    (prevCall = "stop_all_idle" /\ pc \in {"h_exit", "exited", "api_idle"}) =>
        /\ processes = stopEntry.procs
        /\ ~running
        /\ \A h \in Handles : visit[h] = "unvisited" /\ invKills[h] = 0

C12_Witness ==
    /\ prevCall = "stop_all_idle"
    /\ pc = "h_exit"
    /\ Len(processes) >= 1
    /\ \E h \in Tracked : os[h].alive /\ ~os[h].termed

\* C16: stop_all never spends time of one process's grace period while a later
\* tracked process that is alive has not yet been sent its termination request.
C16_EscalationsIndependent ==
    (pc = "st_wait" /\ waited > 0) =>
        \A k \in 1..Len(processes) :
            os[processes[k]].alive => visit[processes[k]] \in Requested

\* C17: the monitoring loop never runs with an empty tracked set; a poll pass
\* that began with every tracked process exited records them all; and once
\* every tracked process has exited in interactive mode, the program goes on to
\* end with the tracked set empty and running False.
C17_AllExitedShutsDown ==
    /\ [](pc \in MonitorPcs => processes # << >>)
    /\ []((pc = "im_pop" /\ Tracked \subseteq tickExited) =>
             Len(dead_processes) = Len(processes))
    /\ (mode = "interactive" /\ pc \in MonitorPcs /\ AllTrackedExited) ~>
          (pc = "exited" /\ ~running /\ processes = << >>)

C17_Witness ==
    /\ mode = "interactive"
    /\ pc = "exited"
    /\ ret = "finally"
    /\ sigCount = 0
    /\ ~running
    /\ Len(os) >= 2
    /\ \A h \in Handles : ~os[h].alive /\ ~os[h].termed /\ os[h].removed = 1

\* C20: the step that ends a monitor tick leaves in the tracked set exactly the
\* handles the poll pass did not record as exited, in their previous order.
C20_TickRemovesExactlyExited ==
    [][(~tickDone /\ tickDone') =>
          processes' = SelectSeq(processes, LAMBDA h : h \notin FoundExited)]_vars

C20_Witness ==
    /\ tickDone
    /\ pc = "im_while"
    /\ Len(os) = 3
    /\ processes = << 2 >>
    /\ os[1].removed = 1
    /\ os[3].removed = 1

\* the health check has returned (the program then ends) unhindered by a signal
HealthReturned == mode = "health" /\ pc = "exited" /\ sigCount = 0

\* a probe that got no response
NoResponse(outcome) == outcome.kind \in {"connection_error", "timeout"}

\* C13: the health check prints one status line per application, in registry
\* order and never two for the same application; whatever a probe meets
\* (refused connection, timeout, unreadable body, any other exception), the
\* check goes on to the next application and returns normally with a line for
\* every application.
C13_EveryApplicationReported ==
    /\ Len(report) <= Len(applications)
    /\ \A k \in 1..Len(report) : report[k].name = applications[k].name
    /\ pc \in {"hc_loop", "hc_probe"} => Len(report) = i - 1
    /\ HealthReturned => (Len(report) = Len(applications) /\ exitCode = 0)

C13_Witness ==
    /\ HealthReturned
    /\ Len(report) = 3
    /\ report[1].status = "Not responding"
    /\ report[2].status = "Error - exception"
    /\ report[3].status = "Healthy"

\* C14: the line of a managed application is determined by the probe outcome:
\* 200 with a JSON object whose success member is true gives Healthy; 200 with
\* success false or missing gives Warning (the spec's Degraded); any other
\* status code gives Error; no response gives Not responding (the spec's
\* Unreachable).  (A 200 whose body is no JSON object is reported as a probe
\* that failed.)
C14_ManagedClassification ==
    \A k \in 1..Len(report) :
        LET o == report[k].outcome
            st == report[k].status IN
        report[k].type = "managed" =>
            /\ (o.kind = "response" /\ o.code = HttpOk /\ o.body = "success_true")
                  => st = "Healthy"
            /\ (o.kind = "response" /\ o.code = HttpOk
                  /\ o.body \in {"success_false", "success_absent"})
                  => st = "Warning"
            /\ (o.kind = "response" /\ o.code # HttpOk) => st = "Error"
            /\ NoResponse(o) => st = "Not responding"
            /\ (o.kind = "response" /\ o.code = HttpOk
                  /\ o.body \in {"not_object", "not_json"})
                  => st \in {"Error - exception", "Not responding"}

C14_Witness ==
    /\ HealthReturned
    /\ Len(report) = 3
    /\ \A k \in 1..3 : report[k].type = "managed" /\ report[k].outcome.code = HttpOk
    /\ report[1].outcome.body = "success_absent" /\ report[1].status = "Warning"
    /\ report[2].outcome.body = "success_false" /\ report[2].status = "Warning"
    /\ report[3].outcome.body = "success_true" /\ report[3].status = "Healthy"

\* C15: the line of a static application is Healthy for a 200 response
\* (whatever the body), Error for any other status code, and Not responding
\* (the spec's Unreachable) for a refused connection or a timeout.
C15_StaticClassification ==
    \A k \in 1..Len(report) :
        LET o == report[k].outcome
            st == report[k].status IN
        report[k].type = "static" =>
            /\ (o.kind = "response" /\ o.code = HttpOk) => st = "Healthy"
            /\ (o.kind = "response" /\ o.code # HttpOk) => st = "Error"
            /\ NoResponse(o) => st = "Not responding"

C15_Witness ==
    /\ HealthReturned
    /\ Len(report) = 3
    /\ \A k \in 1..3 : report[k].type = "static"
    /\ report[1].outcome.code = HttpOk /\ report[1].outcome.body = "not_json"
    /\ report[1].status = "Healthy"
    /\ report[2].outcome.code # HttpOk /\ report[2].status = "Error"
    /\ report[3].outcome.kind = "timeout" /\ report[3].status = "Not responding"

\* the line of write n has been printed under the application's name
Printed(n) ==
    \E j \in 1..Len(relay.printed) :
        relay.printed[j].id = n /\ relay.printed[j].app_name = relay.app_name

\* the line of write n waits in the stdout pipe
PendingStdout(n) == \E k \in 1..Len(relay.stdout) : relay.stdout[k].id = n

\* the line of write n waits in the stderr pipe and contains "error"
PendingStderrError(n) ==
    \E k \in 1..Len(relay.stderr) :
        relay.stderr[k].id = n /\ ContainsError(relay.stderr[k].text)

\* C18: every line the thread has read from either stream has been printed, with
\* its text, under the name of the application; a stderr line is printed with
\* the ERROR tag exactly when it contains "error" in whatever case, and no
\* stdout line carries the tag.
C18_EveryLineRelayed ==
    \A k \in 1..Len(relay.consumed) :
        \E j \in 1..Len(relay.printed) :
            /\ relay.printed[j].id = relay.consumed[k].id
            /\ relay.printed[j].text = relay.consumed[k].text
            /\ relay.printed[j].app_name = relay.app_name
            /\ relay.printed[j].tag = "ERROR" <=>
                  (relay.consumed[k].stream = "stderr"
                     /\ ContainsError(relay.consumed[k].text))

\* C19: while the child runs, a line waiting in the stdout pipe, and a line
\* that contains "error" waiting in the stderr pipe, is eventually printed,
\* whatever the child does on the other stream (unless the child exits first).
C19_StreamsIndependent ==
    \A n \in 1..MaxLines :
        /\ PendingStderrError(n) ~> (Printed(n) \/ ~PollIsNone(relay.process))
        /\ PendingStdout(n) ~> (Printed(n) \/ ~PollIsNone(relay.process))

====
